---- MODULE Spec2Model ----
(***************************************************************************)
(* Model of homework.py: a bot that polls the homework-status endpoint and *)
(* reports to a Telegram chat.  The texts of the program are Russian; the  *)
(* strings below are their transliterations (one string per source string).*)
(***************************************************************************)
EXTENDS Integers, Sequences, FiniteSets, TLC

\* ------------------------------------------------------------------ bounds
\* Number of loop iterations explored.
MaxCycles == 3

\* ------------------------------------------------------- program constants
RETRY_PERIOD == 600

ENDPOINT == "https://practicum.yandex.ru/api/user_api/homework_statuses/"

HOMEWORK_VERDICTS ==
    [approved  |-> "Rabota proverena: revyueru vsyo ponravilos. Ura!",
     reviewing |-> "Rabota vzyata na proverku revyuerom.",
     rejected  |-> "Rabota proverena: u revyuera est zamechaniya."]

\* ------------------------------------------------------------ Python values
\* Python's None, where the other values of the variable are strings.
None == "None"

\* "No exception": the call returned.
NoExc == "none"

\* Truthiness of an os.getenv() result: None and '' are falsy.
Truthy(x) == x # None /\ x # ""

\* The exception classes the program meets, each with its base classes
\* (exceptions.py and the builtins / requests / telegram hierarchies).
Bases ==
    [EndpointError         |-> {"EndpointError", "Exception"},
     WrongFormatError      |-> {"WrongFormatError", "TypeError", "Exception"},
     ExpectedStatusesError |-> {"ExpectedStatusesError", "Exception"},
     TypeError             |-> {"TypeError", "Exception"},
     ValueError            |-> {"ValueError", "Exception"},
     KeyError              |-> {"KeyError", "LookupError", "Exception"},
     IndexError            |-> {"IndexError", "LookupError", "Exception"},
     AttributeError        |-> {"AttributeError", "Exception"},
     JSONDecodeError       |-> {"JSONDecodeError", "ValueError", "Exception"},
     TelegramError         |-> {"TelegramError", "Exception"},
     HTTPError             |-> {"HTTPError", "RequestException", "Exception"},
     ConnectionError       |-> {"ConnectionError", "RequestException", "Exception"},
     Timeout               |-> {"Timeout", "RequestException", "Exception"}]

\* isinstance(exc, cls), i.e. whether "except cls" catches exc.
IsInstance(exc, cls) == exc # NoExc /\ cls \in Bases[exc]

\* ---------------------------------------------------------------- JSON values
\* A JSON value is [t |-> its type, v |-> its content as a sequence].
JNull == [t |-> "null", v |-> <<>>]
JStr == [t |-> "str", v |-> <<>>]
JInt(n) == [t |-> "int", v |-> <<n>>]
JList(s) == [t |-> "list", v |-> s]

\* A dict with the keys ks, its values taken from full.
Dict(ks, full) == [k \in ks |-> full[k]]

EmptyDict == Dict({}, <<>>)

Names == {"X"}

Statuses == {"approved", "reviewing", "rejected", "in_review"}

\* Homework records: complete ones, and ones lacking a key.
FullRecords == {[status |-> s, homework_name |-> n] : s \in Statuses, n \in Names}

PartialRecords ==
    {EmptyDict,
     Dict({"id"}, [id |-> "1"]),
     Dict({"status"}, [status |-> "reviewing", homework_name |-> "X"]),
     Dict({"homework_name"}, [status |-> "reviewing", homework_name |-> "X"])}

Records == FullRecords \cup PartialRecords

\* Values of the "homeworks" key: null, a non-list, lists of 0..2 records
\* (most recent first).
HomeworkLists ==
    {<<>>} \cup {<<r>> : r \in Records}
           \cup {<<[status |-> "reviewing", homework_name |-> "X"],
                   [status |-> "approved", homework_name |-> "X"]>>,
                 <<[status |-> "approved", homework_name |-> "X"],
                   [status |-> "in_review", homework_name |-> "X"]>>}

HomeworksValues == {JNull, JStr} \cup {JList(s) : s \in HomeworkLists}

\* Server times.
StartTimes == {10, 11}

CurrentDates == {11, 12}

\* Response bodies after .json(): a dict, or a JSON array (not a dict).
JDict(d) == [t |-> "dict", d |-> d]

NotDict == [t |-> "list", d |-> EmptyDict]

BadJson == [t |-> "badjson", d |-> EmptyDict]

GoodRecord == [status |-> "reviewing", homework_name |-> "X"]

Bodies ==
    {NotDict, BadJson, JDict(EmptyDict),
     JDict(Dict({"current_date"}, [current_date |-> JInt(11)])),
     JDict(Dict({"homeworks"}, [homeworks |-> JList(<<GoodRecord>>)])),
     JDict([homeworks |-> JList(<<GoodRecord>>), current_date |-> JStr])}
    \cup {JDict([homeworks |-> h, current_date |-> JInt(c)]) :
              h \in HomeworksValues, c \in CurrentDates}

\* What the network answers to requests.get: an exception of the requests
\* library, or a response with a status code and a body.
NetReplies ==
    {[exc |-> e, status_code |-> 0, body |-> BadJson] :
         e \in {"HTTPError", "ConnectionError", "Timeout"}}
    \cup {[exc |-> NoExc, status_code |-> c, body |-> BadJson] : c \in {503, 404}}
    \cup {[exc |-> NoExc, status_code |-> 200, body |-> b] : b \in Bodies}

\* What bot.send_message does.
Deliveries == {NoExc, "TelegramError"}

\* ------------------------------------------------------------ the functions
\* A raised exception, or a normal return (type = NoExc).
Raise(type, msg) == [type |-> type, msg |-> msg]

Returned == Raise(NoExc, "")

\* check_tokens with any() in place of all().
check_tokens_any(practicum_token, telegram_token, telegram_chat_id) ==
    Truthy(practicum_token) \/ Truthy(telegram_token) \/ Truthy(telegram_chat_id)

\* check_tokens(): all() of the three module globals.
check_tokens(practicum_token, telegram_token, telegram_chat_id) ==
    Truthy(practicum_token) /\ Truthy(telegram_token) /\ Truthy(telegram_chat_id)

\* send_message without its except clause: the TelegramError leaves it.
send_message_reraise(message, delivery) ==
    IF IsInstance(delivery, "TelegramError")
    THEN Raise("TelegramError", "Soobshchenie ne otpravleno")
    ELSE Returned

\* send_message(bot, message): the TelegramError of bot.send_message is
\* caught and logged, so the call always returns.
send_message(message, delivery) ==
    IF IsInstance(delivery, "TelegramError") THEN Returned ELSE Returned

\* Line 73 testing for one error code only.
EndpointUnavailable_only404(status_code) == status_code = 404

\* The condition of line 73.
EndpointUnavailable(status_code) == status_code # 200

EndpointMessage(status_code) ==
    "Endpoint " \o ENDPOINT \o " nedostupen. StatusCode: " \o ToString(status_code)

\* get_api_answer(timestamp): the request carries from_date = timestamp.  An
\* exception of requests.get is logged and leaves homework_statuses = None,
\* whose .status_code is an AttributeError; .json() of a body that is not
\* JSON raises JSONDecodeError.
get_api_answer(timestamp, net) ==
    LET homework_statuses_is_None ==
            IsInstance(net.exc, "HTTPError") \/ IsInstance(net.exc, "RequestException")
        request == [from_date |-> timestamp]
    IN  IF homework_statuses_is_None
        THEN [request |-> request, status_code |-> 0, response |-> BadJson,
              exc |-> Raise("AttributeError",
                            "'NoneType' object has no attribute 'status_code'")]
        ELSE IF EndpointUnavailable(net.status_code)
        THEN [request |-> request, status_code |-> net.status_code,
              response |-> BadJson,
              exc |-> Raise("EndpointError", EndpointMessage(net.status_code))]
        ELSE IF net.body = BadJson
        THEN [request |-> request, status_code |-> net.status_code,
              response |-> BadJson,
              exc |-> Raise("JSONDecodeError", "Expecting value")]
        ELSE [request |-> request, status_code |-> net.status_code,
              response |-> net.body, exc |-> Returned]

\* check_response(response): returns the list under "homeworks".
check_response(response) ==
    IF response.t # "dict" \/ "homeworks" \notin DOMAIN response.d
    THEN [homework |-> <<>>,
          exc |-> Raise("TypeError", "Klyuch homeworks otsutstvuet pri polucheniya otveta ot API ")]
    ELSE LET homework == response.d["homeworks"]
         IN  IF "current_date" \notin DOMAIN response.d
             THEN [homework |-> <<>>,
                   exc |-> Raise("TypeError", "Klyuch current_date otsutstvuet pri polucheniya otveta ot API ")]
             ELSE IF homework.t = "null"
             THEN [homework |-> <<>>,
                   exc |-> Raise("ValueError", "Poluchen pustoy otvet ot API")]
             ELSE IF homework.t # "list"
             THEN [homework |-> <<>>,
                   exc |-> Raise("WrongFormatError", "V otvete API domashki predstavleny ne spiskom")]
             ELSE [homework |-> homework.v, exc |-> Returned]

\* The f-string of line 134 without the quotes around the name.
StatusMessage_noQuotes(homework_name, verdict) ==
    "Izmenilsya status proverki raboty " \o homework_name \o ". " \o verdict

\* The f-string of line 134.
StatusMessage(homework_name, verdict) ==
    "Izmenilsya status proverki raboty \"" \o homework_name \o "\". " \o verdict

\* parse_status looking for homework_name before status.
parse_status_nameFirst(homework) ==
    IF homework = EmptyDict
    THEN [message |-> "", exc |-> Raise("TypeError", "Spisok s domishkami pust")]
    ELSE IF "homework_name" \notin DOMAIN homework
    THEN [message |-> "",
          exc |-> Raise("KeyError", "'Klyuch homework_name otsutstvuet pri polucheniya otveta ot API '")]
    ELSE IF "status" \notin DOMAIN homework
    THEN [message |-> "",
          exc |-> Raise("KeyError", "'Klyuch status otsutstvuet pri polucheniya otveta ot API '")]
    ELSE IF homework["status"] \notin DOMAIN HOMEWORK_VERDICTS
    THEN [message |-> "",
          exc |-> Raise("ExpectedStatusesError", "Nedokumentirovannyy status domashney raboty")]
    ELSE [message |-> StatusMessage(homework["homework_name"],
                                    HOMEWORK_VERDICTS[homework["status"]]),
          exc |-> Returned]

\* parse_status(homework): the message for one homework record.
parse_status(homework) ==
    IF homework = EmptyDict
    THEN [message |-> "", exc |-> Raise("TypeError", "Spisok s domishkami pust")]
    ELSE IF "status" \notin DOMAIN homework
    THEN [message |-> "",
          exc |-> Raise("KeyError", "'Klyuch status otsutstvuet pri polucheniya otveta ot API '")]
    ELSE IF "homework_name" \notin DOMAIN homework
    THEN [message |-> "",
          exc |-> Raise("KeyError", "'Klyuch homework_name otsutstvuet pri polucheniya otveta ot API '")]
    ELSE IF homework["status"] \notin DOMAIN HOMEWORK_VERDICTS
    THEN [message |-> "",
          exc |-> Raise("ExpectedStatusesError", "Nedokumentirovannyy status domashney raboty")]
    ELSE [message |-> StatusMessage(homework["homework_name"],
                                    HOMEWORK_VERDICTS[homework["status"]]),
          exc |-> Returned]

\* ------------------------------------------------------------------ state
VARIABLES
    pc,                 \* where main() is: "start", "fetch", "sleep",
                        \* "terminated" (exit()), "crashed" (uncaught exception)
    PRACTICUM_TOKEN,    \* the three module globals read from the environment
    TELEGRAM_TOKEN,
    TELEGRAM_CHAT_ID,
    timestamp,          \* main's locals
    status_work,
    pending,            \* the exception propagating through "finally"
    cycle,              \* number of loop iterations begun
    cur,                \* what the iteration begun last did (observation)
    prev,               \* the iteration before it, in short (observation)
    notified,           \* the status notifications attempted so far
    run,                \* the successful iterations in a row that reported
                        \* the same status, and their status notifications
    slept,              \* number of completed time.sleep calls
    failures,           \* the iterations in a row that ended in an except
                        \* clause of main, and the messages they attempted
    critical,           \* whether logger.critical was called
    exit_status         \* the exit status of the process: <<>> while it
                        \* runs, <<status>> once it has ended

vars == <<pc, PRACTICUM_TOKEN, TELEGRAM_TOKEN, TELEGRAM_CHAT_ID, timestamp,
          status_work, pending, cycle, cur, prev, notified, run, slept,
          failures, critical, exit_status>>

EnvValues == {None, "", "tok"}

\* The observation of an iteration that did not happen.
NoCycle ==
    [from_date |-> 0, status_code |-> 0, fetch_exc |-> NoExc,
     check_ran |-> FALSE, parse_ran |-> FALSE, exc |-> Returned,
     handler |-> 0, empty |-> FALSE, latest |-> None, name |-> None,
     current_date |-> 0, ok |-> FALSE, msgs |-> <<>>,
     status_work_before |-> None, timestamp_before |-> 0,
     net_exc |-> NoExc, response |-> BadJson,
     checked |-> [homework |-> <<>>, exc |-> Returned],
     parsed |-> [message |-> "", exc |-> Returned]]

NoPrev == [ok |-> FALSE, failed |-> FALSE, latest |-> None, current_date |-> 0,
           from_date |-> 0]

\* In short, for the next iteration to compare with.
Shorten(c) ==
    [ok |-> c.ok, failed |-> ~c.ok, latest |-> IF c.ok THEN c.latest ELSE None,
     current_date |-> IF c.ok THEN c.current_date ELSE 0,
     from_date |-> c.from_date]

NoRun == [status |-> None, len |-> 0, notifications |-> 0]

NoFailures == [len |-> 0, msgs |-> 0]

Init ==
    /\ pc = "start"
    /\ PRACTICUM_TOKEN \in EnvValues
    /\ TELEGRAM_TOKEN \in EnvValues
    /\ TELEGRAM_CHAT_ID \in EnvValues
    /\ timestamp = 0
    /\ status_work = None
    /\ pending = NoExc
    /\ cycle = 0
    /\ cur = NoCycle
    /\ prev = NoPrev
    /\ notified = <<>>
    /\ run = NoRun
    /\ slept = 0
    /\ failures = NoFailures
    /\ critical = FALSE
    /\ exit_status = <<>>

\* One attempt to send: the text and what bot.send_message did.
Sent(message, delivery) == [text |-> message, delivery |-> delivery]

\* The line of the except clause of the inner try that catches exc.
Handler(exc) ==
    IF IsInstance(exc, "TypeError") THEN 160
    ELSE IF IsInstance(exc, "ValueError") THEN 164
    ELSE 168

\* Line 157 without the test: notify in every successful iteration.
FirstNotification_always(sw) == TRUE

\* The condition of line 157.
FirstNotification(sw) == sw = None

\* The handlers forgetting the last status on a failure.
Report_resets(exc, msgs, sw, delivery, check_ran, parse_ran) ==
    LET message == "Sboy v rabote programmy: " \o exc.msg
    IN  [status_work |-> None, msgs |-> Append(msgs, Sent(message, delivery)),
         exc |-> exc, handler |-> Handler(exc.type),
         propagates |-> send_message(message, delivery).type,
         check_ran |-> check_ran, parse_ran |-> parse_ran]

\* The handlers only logging the failure, without send_message.
Report_silent(exc, msgs, sw, delivery, check_ran, parse_ran) ==
    [status_work |-> sw, msgs |-> msgs,
     exc |-> exc, handler |-> Handler(exc.type),
     propagates |-> NoExc,
     check_ran |-> check_ran, parse_ran |-> parse_ran]

\* The three handlers of lines 160-171: report the failure to the chat.  An
\* exception of send_message inside a handler leaves the try statement.
Report(exc, msgs, sw, delivery, check_ran, parse_ran) ==
    LET message == "Sboy v rabote programmy: " \o exc.msg
    IN  [status_work |-> sw, msgs |-> Append(msgs, Sent(message, delivery)),
         exc |-> exc, handler |-> Handler(exc.type),
         propagates |-> send_message(message, delivery).type,
         check_ran |-> check_ran, parse_ran |-> parse_ran]

\* Lines 154-171, the else branch of the outer try, for a returned response.
Process(response, sw, d1, d2) ==
    LET checked == check_response(response)
        homework == checked.homework
    IN  IF checked.exc # Returned
        THEN Report(checked.exc, <<>>, sw, d1, TRUE, FALSE)
        ELSE IF Len(homework) = 0
        THEN Report(Raise("IndexError", "list index out of range"), <<>>, sw, d1,
                    TRUE, FALSE)
        ELSE LET parsed == parse_status(homework[1])
             IN  IF parsed.exc # Returned
                 THEN Report(parsed.exc, <<>>, sw, d1, TRUE, TRUE)
                 ELSE IF FirstNotification(sw)
                 THEN LET sending == send_message(parsed.message, d1)
                          msgs == <<Sent(parsed.message, d1)>>
                      IN  IF sending # Returned
                          THEN Report(sending, msgs, sw, d2, TRUE, TRUE)
                          ELSE [status_work |-> homework[1]["status"],
                                msgs |-> msgs, exc |-> Returned, handler |-> 0,
                                propagates |-> NoExc,
                                check_ran |-> TRUE, parse_ran |-> TRUE]
                 ELSE [status_work |-> sw, msgs |-> <<>>, exc |-> Returned,
                       handler |-> 0, propagates |-> NoExc,
                       check_ran |-> TRUE, parse_ran |-> TRUE]

\* ---------------------------------------------------------------- actions
\* Whether a text is a status notification (an output of parse_status).
IsStatusText(text) ==
    \E n \in Names, s \in DOMAIN HOMEWORK_VERDICTS :
        text = StatusMessage(n, HOMEWORK_VERDICTS[s])

StatusTexts(msgs) == SelectSeq(msgs, LAMBDA m : IsStatusText(m.text))

\* The first record of a response, if it has one.
FirstRecord(response) ==
    IF check_response(response).exc = Returned
       /\ Len(check_response(response).homework) > 0
    THEN check_response(response).homework[1]
    ELSE EmptyDict

Field(record, key) == IF key \in DOMAIN record THEN record[key] ELSE None

\* The integer under "current_date" of a response, 0 if there is none.
CurrentDateOf(response) ==
    IF response.t = "dict" /\ "current_date" \in DOMAIN response.d
       /\ response.d["current_date"].t = "int"
    THEN response.d["current_date"].v[1]
    ELSE 0

\* The exit status of exit(code), i.e. of SystemExit(code): 0 for None, the
\* code itself for an integer.
ExitCode(code) == IF code = None THEN 0 ELSE code

\* The exit status of a process that ends with an uncaught exception.
UncaughtExit == 1

\* Lines 139-141: a token is missing, logger.critical and exit().
Exit ==
    /\ pc = "start"
    /\ ~check_tokens(PRACTICUM_TOKEN, TELEGRAM_TOKEN, TELEGRAM_CHAT_ID)
    /\ critical' = TRUE
    /\ exit_status' = <<ExitCode(None)>>
    /\ pc' = "terminated"
    /\ UNCHANGED <<PRACTICUM_TOKEN, TELEGRAM_TOKEN, TELEGRAM_CHAT_ID, timestamp,
                   status_work, pending, cycle, cur, prev, notified, run, slept,
                   failures>>

\* Lines 139-147: the tokens are there; the locals are set and the loop begins.
EnterLoop ==
    /\ pc = "start"
    /\ check_tokens(PRACTICUM_TOKEN, TELEGRAM_TOKEN, TELEGRAM_CHAT_ID)
    /\ \E now \in StartTimes : timestamp' = now
    /\ status_work' = None
    /\ pc' = "fetch"
    /\ UNCHANGED <<PRACTICUM_TOKEN, TELEGRAM_TOKEN, TELEGRAM_CHAT_ID, pending,
                   cycle, cur, prev, notified, run, slept, failures, critical,
                   exit_status>>

\* What every iteration does on its way to "finally".
Iterate(observation, propagates) ==
    /\ cycle' = cycle + 1
    /\ prev' = Shorten(cur)
    /\ cur' = observation
    /\ run' = IF ~observation.ok THEN NoRun
              ELSE IF observation.latest = run.status
              THEN [run EXCEPT !.len = @ + 1,
                               !.notifications = @ + Len(StatusTexts(observation.msgs))]
              ELSE [status |-> observation.latest, len |-> 1,
                    notifications |-> Len(StatusTexts(observation.msgs))]
    /\ failures' = IF observation.handler # 0
                   THEN [len |-> failures.len + 1,
                         msgs |-> failures.msgs + Len(observation.msgs)]
                   ELSE NoFailures
    /\ pending' = propagates
    /\ pc' = "sleep"
    /\ UNCHANGED <<PRACTICUM_TOKEN, TELEGRAM_TOKEN, TELEGRAM_CHAT_ID, slept,
                   critical, exit_status>>

\* Lines 148-152: get_api_answer raises EndpointError, which is sent to the
\* chat and logged.
PollEndpointError ==
    /\ pc = "fetch"
    /\ cycle < MaxCycles
    /\ \E net \in NetReplies, d1 \in Deliveries :
         LET api == get_api_answer(timestamp, net)
         IN  /\ IsInstance(api.exc.type, "EndpointError")
             /\ Iterate([NoCycle EXCEPT
                            !.from_date = api.request.from_date,
                            !.status_code = api.status_code,
                            !.fetch_exc = api.exc.type,
                            !.net_exc = net.exc,
                            !.exc = api.exc,
                            !.handler = 150,
                            !.msgs = <<Sent(api.exc.msg, d1)>>,
                            !.status_work_before = status_work,
                            !.timestamp_before = timestamp],
                        send_message(api.exc.msg, d1).type)
    /\ UNCHANGED <<timestamp, status_work, notified>>

\* Lines 148-149 and 172: get_api_answer raises something that is not an
\* EndpointError; no except clause of the outer try catches it.
PollUncaught ==
    /\ pc = "fetch"
    /\ cycle < MaxCycles
    /\ \E net \in NetReplies :
         LET api == get_api_answer(timestamp, net)
         IN  /\ api.exc # Returned
             /\ ~IsInstance(api.exc.type, "EndpointError")
             /\ Iterate([NoCycle EXCEPT
                            !.from_date = api.request.from_date,
                            !.status_code = api.status_code,
                            !.fetch_exc = api.exc.type,
                            !.net_exc = net.exc,
                            !.exc = api.exc,
                            !.status_work_before = status_work,
                            !.timestamp_before = timestamp],
                        api.exc.type)
    /\ UNCHANGED <<timestamp, status_work, notified>>

\* Lines 148-149 and 153-171: get_api_answer returns and the response is
\* checked, parsed and possibly notified.
PollAnswered ==
    /\ pc = "fetch"
    /\ cycle < MaxCycles
    /\ \E net \in NetReplies, d1 \in Deliveries, d2 \in Deliveries :
         LET api == get_api_answer(timestamp, net)
             done == Process(api.response, status_work, d1, d2)
             first == FirstRecord(api.response)
         IN  /\ api.exc = Returned
             /\ status_work' = done.status_work
             /\ notified' = notified \o
                    [i \in 1..Len(StatusTexts(done.msgs)) |->
                        [text |-> StatusTexts(done.msgs)[i].text,
                         delivery |-> StatusTexts(done.msgs)[i].delivery,
                         status |-> Field(first, "status"),
                         cycle |-> cycle + 1]]
             /\ Iterate([from_date |-> api.request.from_date,
                         status_code |-> api.status_code,
                         fetch_exc |-> NoExc,
                         check_ran |-> done.check_ran,
                         parse_ran |-> done.parse_ran,
                         exc |-> done.exc,
                         handler |-> done.handler,
                         empty |-> check_response(api.response).exc = Returned
                                   /\ check_response(api.response).homework = <<>>,
                         latest |-> Field(first, "status"),
                         name |-> Field(first, "homework_name"),
                         current_date |-> CurrentDateOf(api.response),
                         ok |-> done.exc = Returned,
                         msgs |-> done.msgs,
                         status_work_before |-> status_work,
                         timestamp_before |-> timestamp,
                         net_exc |-> net.exc,
                         response |-> api.response,
                         checked |-> check_response(api.response),
                         parsed |-> IF done.parse_ran
                                    THEN parse_status(first)
                                    ELSE NoCycle.parsed],
                        done.propagates)
    /\ UNCHANGED timestamp

\* The sleep in an else clause in place of finally: no sleep after a failure.
Sleep_onlyAfterSuccess ==
    /\ pc = "sleep"
    /\ slept' = IF cur.exc = Returned THEN slept + 1 ELSE slept
    /\ pc' = IF pending = NoExc THEN "fetch" ELSE "crashed"
    /\ exit_status' = IF pending = NoExc THEN exit_status ELSE <<UncaughtExit>>
    /\ UNCHANGED <<PRACTICUM_TOKEN, TELEGRAM_TOKEN, TELEGRAM_CHAT_ID, timestamp,
                   status_work, pending, cycle, cur, prev, notified, run,
                   failures, critical>>

\* Lines 172-173: time.sleep(RETRY_PERIOD) in "finally"; then the loop goes
\* on, or the exception that was propagating leaves main().
Sleep ==
    /\ pc = "sleep"
    /\ slept' = slept + 1
    /\ pc' = IF pending = NoExc THEN "fetch" ELSE "crashed"
    /\ exit_status' = IF pending = NoExc THEN exit_status ELSE <<UncaughtExit>>
    /\ UNCHANGED <<PRACTICUM_TOKEN, TELEGRAM_TOKEN, TELEGRAM_CHAT_ID, timestamp,
                   status_work, pending, cycle, cur, prev, notified, run,
                   failures, critical>>

Next ==
    \/ Exit
    \/ EnterLoop
    \/ PollEndpointError
    \/ PollUncaught
    \/ PollAnswered
    \/ Sleep

Spec == Init /\ [][Next]_vars

TypeOK ==
    /\ pc \in {"start", "fetch", "sleep", "terminated", "crashed"}
    /\ cycle \in 0..MaxCycles
    /\ status_work \in {None} \cup DOMAIN HOMEWORK_VERDICTS
    /\ Len(cur.msgs) <= 1

\* ------------------------------------------------------------- properties
\* The status notifications of the iteration begun last.
Notifications == StatusTexts(cur.msgs)

\* C1: when two successful iterations in a row report statuses S1 then S2
\* with S1 # S2, the second one sends exactly one notification, and it is
\* the verdict of S2.
C1_NotifyEveryTransition ==
    (prev.ok /\ cur.ok /\ prev.latest # cur.latest) =>
        /\ Len(Notifications) = 1
        /\ Notifications[1].text =
               StatusMessage(cur.name, HOMEWORK_VERDICTS[cur.latest])

\* C2: the from_date of an iteration is the current_date of the iteration
\* before it if that one succeeded, and the from_date of the iteration
\* before it if that one failed; it never regresses.
C2_CursorFollowsServer ==
    cycle >= 2 =>
        /\ (prev.ok /\ prev.current_date # 0) => cur.from_date = prev.current_date
        /\ prev.failed => cur.from_date = prev.from_date
        /\ cur.from_date >= prev.from_date

\* C3: no failure inside an iteration ends the loop: main() is never left
\* with an exception.
C3_NoFailureIsFatal == pc # "crashed" /\ pending = NoExc

\* C4: the successful iterations in a row that report the same status send
\* at most one status notification between them, however long the row and
\* whatever status_work was before it.
C4_AtMostOncePerRun == run.notifications <= 1 /\ Len(Notifications) <= 1

\* C4's case: three iterations in a row reported one status, notified once.
C4_Witness == run.len >= 3 /\ run.notifications = 1

\* C5: an iteration whose response has an empty homeworks list sends
\* nothing to the chat and leaves status_work as it was.
C5_EmptyListIsSilent ==
    cur.empty => cur.msgs = <<>> /\ status_work = cur.status_work_before

\* C6: an iteration whose response check_response rejects sends nothing to
\* the chat, and the loop goes on.
C6_SchemaErrorIsSilent ==
    (cur.check_ran /\ ~cur.parse_ran /\ ~cur.empty /\ cur.exc # Returned) =>
        cur.msgs = <<>> /\ pending = NoExc /\ pc # "crashed"

\* C7: an iteration whose latest record has a status outside the verdict
\* table raises ExpectedStatusesError, sends nothing to the chat and leaves
\* status_work as it was.
C7_UnknownStatusIsSilent ==
    (cur.parse_ran /\ cur.latest \notin DOMAIN HOMEWORK_VERDICTS
                   /\ cur.latest # None /\ cur.name # None) =>
        /\ cur.exc.type = "ExpectedStatusesError"
        /\ cur.msgs = <<>>
        /\ status_work = cur.status_work_before

\* C8: a status notification that was attempted has its status committed to
\* status_work in the same iteration whether or not it was delivered, and a
\* notification whose delivery failed is not attempted again later.
C8_CommittedDespiteFailure ==
    /\ Notifications # <<>> => status_work = cur.latest
    /\ \A i \in 1..Len(notified) :
           notified[i].delivery = "TelegramError" =>
               \A j \in (i + 1)..Len(notified) :
                   notified[j].status # notified[i].status

\* C8's case: the delivery failed, and a later iteration reported the same
\* record successfully without a new attempt.
C8_Witness ==
    /\ Len(notified) = 1
    /\ notified[1].delivery = "TelegramError"
    /\ cycle > notified[1].cycle
    /\ cur.ok
    /\ cur.latest = notified[1].status
    /\ cur.msgs = <<>>

\* C9: an iteration whose fetch is answered with a status code other than
\* 200 raises EndpointError carrying the code, runs neither check_response
\* nor parse_status, leaves timestamp and status_work as they were, and is
\* followed by the sleep and then the next fetch.
C9_Non200Abandoned ==
    (cur.status_code \notin {0, 200}) =>
        /\ cur.exc = Raise("EndpointError", EndpointMessage(cur.status_code))
        /\ ~cur.check_ran /\ ~cur.parse_ran
        /\ timestamp = cur.timestamp_before
        /\ status_work = cur.status_work_before
        /\ pending = NoExc
        /\ \/ pc = "sleep" /\ slept = cycle - 1
           \/ pc = "fetch" /\ slept = cycle

\* C9's case: a 503 was answered, the sleep is over and the next fetch is due.
C9_Witness == cur.status_code = 503 /\ pc = "fetch" /\ slept = cycle

\* C10: when one of the three secrets is absent the process terminates
\* without a fetch or a message; when all three are there it does not
\* terminate at startup.
C10_TokensGateTheLoop ==
    /\ (None \in {PRACTICUM_TOKEN, TELEGRAM_TOKEN, TELEGRAM_CHAT_ID}) =>
           /\ pc \in {"start", "terminated"}
           /\ cycle = 0 /\ cur = NoCycle /\ notified = <<>> /\ slept = 0
    /\ ({PRACTICUM_TOKEN, TELEGRAM_TOKEN, TELEGRAM_CHAT_ID} = {"tok"}) =>
           pc # "terminated"

\* C10's case: one secret is absent, the other two are there, and the
\* process has terminated.
C10_Witness ==
    /\ pc = "terminated"
    /\ TELEGRAM_CHAT_ID = None
    /\ PRACTICUM_TOKEN = "tok" /\ TELEGRAM_TOKEN = "tok"

\* C11: every iteration is followed by exactly one sleep, after a success
\* and after a failure alike, and a fetch is issued only when every
\* iteration before it has had its sleep.
C11_OneSleepPerIteration ==
    /\ pc = "sleep" => slept = cycle - 1
    /\ pc \in {"fetch", "crashed"} => slept = cycle
    /\ pc \in {"start", "terminated"} => slept = 0 /\ cycle = 0

\* C11's case: a failed iteration and then a successful one have both had
\* their sleep, and the third fetch is due.
C11_Witness == pc = "fetch" /\ prev.failed /\ cur.ok /\ cycle = 2 /\ slept = 2

\* C12: an iteration that ended with an exception, from the fetch, from
\* check_response, from indexing or from parse_status, leaves timestamp and
\* status_work as they were when it began.
C12_FailureLeavesState ==
    (cycle >= 1 /\ cur.exc # Returned) =>
        /\ timestamp = cur.timestamp_before
        /\ status_work = cur.status_work_before

\* C12's case: parse_status failed in an iteration that began with a status
\* already stored.
C12_Witness ==
    /\ cur.parse_ran /\ cur.exc # Returned
    /\ cur.status_work_before = "reviewing"
    /\ status_work = "reviewing"

\* C13: a process that ended because a token was missing logged at critical
\* level and ended with a non-zero exit status.
C13_MissingConfigExitsNonZero ==
    pc = "terminated" => critical /\ exit_status # <<0>>

\* A response with a list under "homeworks" and an integer under
\* "current_date".
WellFormed(response) ==
    /\ response.t = "dict"
    /\ "homeworks" \in DOMAIN response.d
    /\ response.d["homeworks"].t = "list"
    /\ "current_date" \in DOMAIN response.d
    /\ response.d["current_date"].t = "int"

\* C14: check_response returns the list of homeworks exactly for the
\* responses with a list under "homeworks" and an integer under
\* "current_date"; for every other response it raises.
C14_AcceptsIffWellFormed ==
    cur.check_ran =>
        /\ cur.checked.exc = Returned <=> WellFormed(cur.response)
        /\ cur.checked.exc = Returned =>
               cur.checked.homework = cur.response.d["homeworks"].v

\* C15: parse_status of a non-empty record raises KeyError for the status
\* key if it is absent, else KeyError for the homework_name key if it is
\* absent, else ExpectedStatusesError if the status is not in
\* HOMEWORK_VERDICTS, else returns the text with the name and the verdict.
C15_ParseStatusCases ==
    (cur.parse_ran /\ cur.checked.homework[1] # EmptyDict) =>
        LET record == cur.checked.homework[1]
        IN  IF "status" \notin DOMAIN record
            THEN /\ cur.parsed.exc.type = "KeyError"
                 /\ cur.parsed.exc.msg =
                        "'Klyuch status otsutstvuet pri polucheniya otveta ot API '"
            ELSE IF "homework_name" \notin DOMAIN record
            THEN /\ cur.parsed.exc.type = "KeyError"
                 /\ cur.parsed.exc.msg =
                        "'Klyuch homework_name otsutstvuet pri polucheniya otveta ot API '"
            ELSE IF record.status \notin {"approved", "reviewing", "rejected"}
            THEN cur.parsed.exc.type = "ExpectedStatusesError"
            ELSE /\ cur.parsed.exc = Returned
                 /\ cur.parsed.message =
                        "Izmenilsya status proverki raboty \""
                            \o record.homework_name \o "\". "
                            \o HOMEWORK_VERDICTS[record.status]

\* C15's case: a record that lacks both keys was parsed.
C15_Witness ==
    /\ cur.parse_ran
    /\ cur.checked.homework[1] = Dict({"id"}, [id |-> "1"])
    /\ cur.parsed.exc.type = "KeyError"

\* C16: an iteration whose requests.get raised leaves timestamp and
\* status_work as they were and the loop goes on; the failure never leaves
\* main() as an exception.
C16_TransportErrorSurvived ==
    cur.net_exc # NoExc =>
        /\ pending = NoExc
        /\ pc # "crashed"
        /\ timestamp = cur.timestamp_before
        /\ status_work = cur.status_work_before

\* C17: with status_work unset, a valid response whose first record is
\* "X" in status reviewing has exactly one message attempted, the reviewing
\* notification for "X", and status_work becomes "reviewing", whatever the
\* records after the first are.
C17_FirstReviewingNotified ==
    (/\ cur.status_work_before = None
     /\ cur.checked.exc = Returned
     /\ Len(cur.checked.homework) >= 1
     /\ cur.checked.homework[1] = [status |-> "reviewing", homework_name |-> "X"]) =>
        /\ Len(cur.msgs) = 1
        /\ cur.msgs[1].text =
               "Izmenilsya status proverki raboty \"X\". Rabota vzyata na proverku revyuerom."
        /\ status_work = "reviewing"

\* C17's case: the first record is reviewing, a second one is approved, and
\* the reviewing notification was attempted.
C17_Witness ==
    /\ cur.status_work_before = None
    /\ Len(cur.checked.homework) = 2
    /\ cur.checked.homework[1] = [status |-> "reviewing", homework_name |-> "X"]
    /\ cur.checked.homework[2] = [status |-> "approved", homework_name |-> "X"]
    /\ Len(cur.msgs) = 1
    /\ status_work = "reviewing"

\* C18: status_work is write-once: it changes only from None, in an
\* iteration whose parse_status returned, and a status notification is
\* attempted only while it is None, so at most once in a run.
C18_WriteOnce ==
    [][/\ status_work # None => status_work' = status_work
       /\ status_work' # status_work =>
              cur'.parse_ran /\ cur'.parsed.exc = Returned
       /\ notified' # notified =>
              status_work = None /\ notified = <<>> /\ Len(notified') = 1]_vars

\* C18's case: with "reviewing" stored, a successful iteration reported
\* "approved" and neither notified nor changed status_work.
C18_Witness ==
    /\ status_work = "reviewing"
    /\ cur.ok /\ cur.latest = "approved"
    /\ cur.msgs = <<>>
    /\ Len(notified) = 1

\* C19: an iteration calls send_message at most once; no iteration sends
\* both a status notification and an error report.
C19_AtMostOneSend ==
    /\ Len(cur.msgs) <= 1
    /\ ~(\E i, j \in 1..Len(cur.msgs) :
            IsStatusText(cur.msgs[i].text) /\ ~IsStatusText(cur.msgs[j].text))

\* C19's case: the status notification failed to deliver and no error
\* report followed it in that iteration.
C19_Witness ==
    /\ Len(cur.msgs) = 1
    /\ IsStatusText(cur.msgs[1].text)
    /\ cur.msgs[1].delivery = "TelegramError"

\* An iteration that ended in an except clause of main: a status code other
\* than 200, or an exception of check_response, indexing or parse_status.
CaughtFailure ==
    \/ cur.status_code \notin {0, 200}
    \/ cur.check_ran /\ cur.exc # Returned

\* C20: every iteration that ends in a caught failure attempts exactly one
\* message, the report of that failure, whatever status_work is, so K such
\* iterations in a row attempt K messages.
C20_EveryFailureReported ==
    /\ CaughtFailure =>
           /\ Len(cur.msgs) = 1
           /\ cur.msgs[1].text =
                  IF cur.check_ran
                  THEN "Sboy v rabote programmy: " \o cur.exc.msg
                  ELSE cur.exc.msg
    /\ failures.msgs = failures.len

\* C20's case: with a status stored, two iterations in a row failed and two
\* reports were attempted.
C20_Witness ==
    /\ status_work = "reviewing"
    /\ CaughtFailure
    /\ failures.len = 2 /\ failures.msgs = 2

====
